---- MODULE Spec2Model ----
(***************************************************************************)
(* Model of queues_stacks_arrays.py: DynamicArray, Stack, LinkedStack and  *)
(* LinkedQueue.  Linked structures live in a heap of Node objects that are *)
(* addressed by reference, so that a reference to a node that is no longer *)
(* part of a chain stays a distinct value.                                 *)
(***************************************************************************)
EXTENDS Integers, Sequences, FiniteSets, TLC

\* ---------------------------------------------------------------- bounds
MaxSize == 3        \* largest _size a LinkedQueue is driven to
MaxAdds == 4        \* longest run of add calls in the add-then-drain scenario
MaxDepth == 3       \* largest _size a stack is driven to
MaxN == 4           \* largest _n a DynamicArray is driven to
MaxPair == 2        \* largest _size the operands of == and + are driven to

Items == {"a", "b"}             \* values stored in the containers
AddItems == {"a", "b", "c"}     \* values of the add-then-drain scenario

\* ------------------------------------------------------- Python values
None == "None"                  \* Python's None, as data and as return value
NULL == "NULL"                  \* an unset ctypes.py_object slot
Null == 0                       \* the None reference in a next/front/rear field
NoError == "none"

\* ------------------------------------------------------------ the heap
\* class Node: data, next
Node(data, next) == [data |-> data, next |-> next]

\* A reference no live object has (the identity of a newly built Node).
NewRef(heap) == CHOOSE r \in 1..(Cardinality(DOMAIN heap) + 1) :
                    /\ r \notin DOMAIN heap
                    /\ \A s \in 1..(r - 1) : s \in DOMAIN heap

RECURSIVE Chain(_, _)
\* The references met when following next from ref until None.
Chain(heap, ref) ==
    IF ref = Null THEN <<>> ELSE <<ref>> \o Chain(heap, heap[ref].next)

Range(seq) == {seq[i] : i \in DOMAIN seq}

\* Objects no reference leads to are freed (reference counting).
Collect(heap, roots) ==
    LET live == UNION {Range(Chain(heap, r)) : r \in roots}
    IN  [r \in live |-> heap[r]]

\* The result of one call: the object afterwards, the value returned and
\* the exception raised (NoError when the call returns).
Result(obj, ret, err) == [obj |-> obj, ret |-> ret, err |-> err]
Raise(obj, err) == Result(obj, None, err)

\* ======================================================== LinkedQueue
\* LinkedQueue.__init__ with no sourceCollection
LinkedQueue_init == [heap |-> <<>>, front |-> Null, rear |-> Null, size |-> 0]

\* AbstractCollection.isEmpty / __len__
isEmpty(self) == self.size = 0

RECURSIVE IterFrom(_, _)
IterFrom(heap, cursor) ==
    IF cursor = Null THEN <<>>
    ELSE <<heap[cursor].data>> \o IterFrom(heap, heap[cursor].next)

\* LinkedQueue.__iter__: the data of the chain from _front
LinkedQueue_iter(self) == IterFrom(self.heap, self.front)

\* Frees what the call left unreferenced.
QCollect(self) == [self EXCEPT !.heap = Collect(self.heap, {self.front, self.rear})]

\* peek that reads the item at the rear.
LinkedQueue_peek_rear(self) ==
    IF isEmpty(self) THEN Raise(self, "KeyError")
    ELSE IF self.rear = Null THEN Raise(self, "AttributeError:NoneType")
    ELSE Result(self, self.heap[self.rear].data, NoError)

LinkedQueue_peek(self) ==
    IF isEmpty(self) THEN Raise(self, "KeyError")
    ELSE IF self.front = Null THEN Raise(self, "AttributeError:NoneType")
    ELSE Result(self, self.heap[self.front].data, NoError)

LinkedQueue_clear(self) ==
    Result(QCollect([self EXCEPT !.size = 0, !.front = Null, !.rear = Null]),
           None, NoError)

\* add without the else branch: the new node is never linked after _rear.
LinkedQueue_add_unlinked(self, item) ==
    LET newNode == NewRef(self.heap)
        h1 == (newNode :> Node(item, Null)) @@ self.heap
    IN  Result(QCollect([heap |-> h1,
                         front |-> IF isEmpty(self) THEN newNode ELSE self.front,
                         rear |-> newNode, size |-> self.size + 1]),
               None, NoError)

LinkedQueue_add(self, item) ==
    LET newNode == NewRef(self.heap)
        h1 == (newNode :> Node(item, Null)) @@ self.heap
    IN  IF isEmpty(self)
        THEN Result(QCollect([heap |-> h1, front |-> newNode,
                              rear |-> newNode, size |-> self.size + 1]),
                    None, NoError)
        ELSE IF self.rear = Null
        THEN Raise(self, "AttributeError:NoneType")
        ELSE Result(QCollect([heap |-> [h1 EXCEPT ![self.rear].next = newNode],
                              front |-> self.front,
                              rear |-> newNode, size |-> self.size + 1]),
                    None, NoError)

\* pop that counts the item off before it tests for the empty queue.
LinkedQueue_pop_countFirst(self) ==
    LET s1 == [self EXCEPT !.size = self.size - 1]
    IN  IF isEmpty(self) THEN Raise(s1, "KeyError")
        ELSE IF self.front = Null THEN Raise(s1, "AttributeError:NoneType")
        ELSE LET front2 == self.heap[self.front].next
             IN  Result(QCollect([s1 EXCEPT !.front = front2,
                                            !.rear = IF front2 = Null THEN Null
                                                     ELSE self.rear]),
                        self.heap[self.front].data, NoError)

LinkedQueue_pop(self) ==
    IF isEmpty(self) THEN Raise(self, "KeyError")
    ELSE IF self.front = Null THEN Raise(self, "AttributeError:NoneType")
    ELSE LET oldItem == self.heap[self.front].data
             front2 == self.heap[self.front].next
             rear2 == IF front2 = Null THEN Null ELSE self.rear
         IN  Result(QCollect([self EXCEPT !.front = front2, !.rear = rear2,
                                          !.size = self.size - 1]),
                    oldItem, NoError)

RECURSIVE Probe_extraHop(_, _, _)
\* Probe with the loop test "index > 0": one hop too many.
Probe_extraHop(heap, probe, index) ==
    IF index > 0
    THEN IF probe = Null THEN -1
         ELSE Probe_extraHop(heap, heap[probe].next, index - 1)
    ELSE probe

RECURSIVE Probe(_, _, _)
\* The while loop of remove: index - 1 hops from probe; -1 when a hop reads
\* the next of None.
Probe(heap, probe, index) ==
    IF index > 1
    THEN IF probe = Null THEN -1 ELSE Probe(heap, heap[probe].next, index - 1)
    ELSE probe

LinkedQueue_remove(self, index) ==
    IF index < 0 \/ index >= self.size THEN Raise(self, "AttributeError")
    ELSE IF index = 0
    THEN IF self.front = Null THEN Raise(self, "AttributeError:NoneType")
         ELSE LET oldItem == self.heap[self.front].data
                  size2 == self.size - 1
                  rear2 == IF size2 = 0 THEN Null ELSE self.rear
              IN  Result(QCollect([self EXCEPT !.front = self.heap[self.front].next,
                                               !.size = size2, !.rear = rear2]),
                         oldItem, NoError)
    ELSE LET probe == Probe(self.heap, self.front, index)
         IN  IF probe = -1 \/ probe = Null THEN Raise(self, "AttributeError:NoneType")
             ELSE IF self.heap[probe].next = Null
             THEN Raise(self, "AttributeError:NoneType")
             ELSE LET target == self.heap[probe].next
                      oldItem == self.heap[target].data
                      h1 == [self.heap EXCEPT ![probe].next = self.heap[target].next]
                      size2 == self.size - 1
                      rear2 == IF size2 = 0 THEN Null ELSE self.rear
                  IN  Result(QCollect([heap |-> h1, front |-> self.front,
                                       rear |-> rear2, size |-> size2]),
                             oldItem, NoError)

\* ======================================================== LinkedStack
\* LinkedStack.__init__ with no sourceCollection
LinkedStack_init == [heap |-> <<>>, items |-> Null, size |-> 0]

RECURSIVE visitNodes_appendFirst(_, _)
\* visitNodes that appends the data before it descends: top to bottom.
visitNodes_appendFirst(heap, node) ==
    IF node # Null
    THEN <<heap[node].data>> \o visitNodes_appendFirst(heap, heap[node].next)
    ELSE <<>>

RECURSIVE visitNodes(_, _)
\* tempList after visitNodes(node): the data from tail to head
visitNodes(heap, node) ==
    IF node # Null
    THEN Append(visitNodes(heap, heap[node].next), heap[node].data)
    ELSE <<>>

\* LinkedStack.__iter__: from bottom to top
LinkedStack_iter(self) == visitNodes(self.heap, self.items)

\* list(stack): runs __iter__ to its end; the object is not assigned to
LinkedStack_list(self) ==
    [obj |-> self, list |-> LinkedStack_iter(self), ret |-> None, err |-> NoError]

LSCollect(self) == [self EXCEPT !.heap = Collect(self.heap, {self.items})]

LinkedStack_peek(self) ==
    IF isEmpty(self) THEN Raise(self, "KeyError")
    ELSE IF self.items = Null THEN Raise(self, "AttributeError:NoneType")
    ELSE Result(self, self.heap[self.items].data, NoError)

LinkedStack_clear(self) ==
    Result(LSCollect([self EXCEPT !.size = 0, !.items = Null]), None, NoError)

LinkedStack_push(self, item) ==
    LET newNode == NewRef(self.heap)
    IN  Result([heap |-> (newNode :> Node(item, self.items)) @@ self.heap,
                items |-> newNode, size |-> self.size + 1],
               None, NoError)

\* pop that advances _items before it reads the data to return.
LinkedStack_pop_readAfterAdvance(self) ==
    IF isEmpty(self) THEN Raise(self, "KeyError")
    ELSE IF self.items = Null THEN Raise(self, "AttributeError:NoneType")
    ELSE LET items2 == self.heap[self.items].next
         IN  IF items2 = Null THEN Raise(self, "AttributeError:NoneType")
             ELSE Result(LSCollect([self EXCEPT !.items = items2,
                                                !.size = self.size - 1]),
                         self.heap[items2].data, NoError)

LinkedStack_pop(self) ==
    IF isEmpty(self) THEN Raise(self, "KeyError")
    ELSE IF self.items = Null THEN Raise(self, "AttributeError:NoneType")
    ELSE LET oldItem == self.heap[self.items].data
         IN  Result(LSCollect([self EXCEPT !.items = self.heap[self.items].next,
                                           !.size = self.size - 1]),
                    oldItem, NoError)

\* ============================================================== Stack
\* class _StackNode: item, next
StackNode(item, link) == [item |-> item, next |-> link]

Stack_init == [heap |-> <<>>, top |-> Null, size |-> 0]

Stack_is_empty(self) == self.top = Null

SCollect(self) == [self EXCEPT !.heap = Collect(self.heap, {self.top})]

Stack_peek(self) ==
    IF Stack_is_empty(self) THEN Raise(self, "AssertionError")
    ELSE Result(self, self.heap[self.top].item, NoError)

\* pop without "self._size -= 1".
Stack_pop_noCount(self) ==
    IF Stack_is_empty(self) THEN Raise(self, "AssertionError")
    ELSE LET node == self.top
         IN  Result(SCollect([self EXCEPT !.top = self.heap[node].next]),
                    self.heap[node].item, NoError)

Stack_pop(self) ==
    IF Stack_is_empty(self) THEN Raise(self, "AssertionError")
    ELSE LET node == self.top
         IN  Result(SCollect([self EXCEPT !.top = self.heap[node].next,
                                          !.size = self.size - 1]),
                    self.heap[node].item, NoError)

Stack_push(self, item) ==
    LET newNode == NewRef(self.heap)
    IN  Result([heap |-> (newNode :> StackNode(item, self.top)) @@ self.heap,
                top |-> newNode, size |-> self.size + 1],
               None, NoError)

\* ======================================================= DynamicArray
\* _make_array(c): c slots, none of them set
make_array(c) == [i \in 0..(c - 1) |-> NULL]

DynamicArray_init == [n |-> 0, capacity |-> 1, A |-> make_array(1)]

DynamicArray_len(self) == self.n

DynamicArray_getitem(self, k) ==
    IF ~(0 <= k /\ k < self.n) THEN Raise(self, "IndexError")
    ELSE IF self.A[k] = NULL THEN Raise(self, "ValueError:NULL")
    ELSE Result(self, self.A[k], NoError)

RECURSIVE CopyLoop(_, _, _, _)
\* for k in range(n): B[k] = A[k], from k on
CopyLoop(B, A, k, n) ==
    IF k < n THEN CopyLoop([B EXCEPT ![k] = A[k]], A, k + 1, n) ELSE B

\* _resize that copies range(n - 1): the last element is left behind.
resize_shortCopy(self, c) ==
    [self EXCEPT !.A = CopyLoop(make_array(c), self.A, 0, self.n - 1),
                 !.capacity = c]

resize(self, c) ==
    [self EXCEPT !.A = CopyLoop(make_array(c), self.A, 0, self.n),
                 !.capacity = c]

\* append that grows the full array by one slot instead of doubling it.
DynamicArray_append_growByOne(self, obj) ==
    LET s1 == IF self.n = self.capacity THEN resize(self, self.capacity + 1)
              ELSE self
    IN  Result([s1 EXCEPT !.A[s1.n] = obj, !.n = s1.n + 1], None, NoError)

DynamicArray_append(self, obj) ==
    LET s1 == IF self.n = self.capacity THEN resize(self, 2 * self.capacity)
              ELSE self
    IN  Result([s1 EXCEPT !.A[s1.n] = obj, !.n = s1.n + 1], None, NoError)

RECURSIVE ShiftUp(_, _, _)
ShiftUp(A, i, n) ==
    IF i <= n THEN ShiftUp([A EXCEPT ![i] = A[i - 1]], i + 1, n) ELSE A

\* The shift done leftmost first, "for j in range(k + 1, n + 1)": each step
\* reads the slot the step before it wrote.
ShiftRight_leftmostFirst(A, j, k) == ShiftUp(A, k + 1, j)

RECURSIVE ShiftRight(_, _, _)
\* for j in range(n, k, -1): A[j] = A[j - 1], from j on
ShiftRight(A, j, k) ==
    IF j > k THEN ShiftRight([A EXCEPT ![j] = A[j - 1]], j - 1, k) ELSE A

\* Subscript of a ctypes array of c slots: a negative index counts from the
\* end; what is then outside 0..c-1 raises IndexError.
Norm(i, c) == IF i < 0 THEN i + c ELSE i
ValidIndex(i, c) == 0 <= Norm(i, c) /\ Norm(i, c) < c

RECURSIVE ShiftRightAny(_, _, _, _)
\* for j in range(n, k, -1): A[j] = A[j - 1] for any k, from j on: the array
\* as far as the loop got, and the exception that stopped it.  The right
\* side is read first; reading an unset slot raises ValueError.
ShiftRightAny(A, j, k, c) ==
    IF j > k
    THEN IF ~ValidIndex(j - 1, c) THEN [A |-> A, err |-> "IndexError"]
         ELSE IF A[Norm(j - 1, c)] = NULL THEN [A |-> A, err |-> "ValueError:NULL"]
         ELSE IF ~ValidIndex(j, c) THEN [A |-> A, err |-> "IndexError"]
         ELSE ShiftRightAny([A EXCEPT ![Norm(j, c)] = A[Norm(j - 1, c)]],
                            j - 1, k, c)
    ELSE [A |-> A, err |-> NoError]

\* insert; the code assumes 0 <= k <= n and does not check it
DynamicArray_insert(self, k, value) ==
    LET s1 == IF self.n = self.capacity THEN resize(self, 2 * self.capacity)
              ELSE self
    IN  IF 0 <= k /\ k <= self.n
        THEN LET A1 == ShiftRight(s1.A, s1.n, k)
             IN  Result([s1 EXCEPT !.A = [A1 EXCEPT ![k] = value], !.n = s1.n + 1],
                        None, NoError)
        ELSE LET sh == ShiftRightAny(s1.A, s1.n, k, s1.capacity)
             IN  IF sh.err # NoError
                 THEN Raise([s1 EXCEPT !.A = sh.A], sh.err)
                 ELSE IF ~ValidIndex(k, s1.capacity)
                 THEN Raise([s1 EXCEPT !.A = sh.A], "IndexError")
                 ELSE Result([s1 EXCEPT !.A = [sh.A EXCEPT ![Norm(k, s1.capacity)] = value],
                                        !.n = s1.n + 1],
                             None, NoError)

RECURSIVE ShiftLeft(_, _, _)
\* for j in range(k, n - 1): A[j] = A[j + 1], from j on
ShiftLeft(A, j, n) ==
    IF j < n - 1 THEN ShiftLeft([A EXCEPT ![j] = A[j + 1]], j + 1, n) ELSE A

RECURSIVE Find_last(_, _, _)
\* The scan run from the high end: the last match.
Find_last(self, value, k) ==
    LET m == self.n - 1 - k
    IN  IF k < self.n
        THEN IF self.A[m] = value THEN m ELSE Find_last(self, value, k + 1)
        ELSE -1

RECURSIVE Find(_, _, _)
\* for k in range(n): if A[k] == value, from k on; -1 when the loop ends
Find(self, value, k) ==
    IF k < self.n
    THEN IF self.A[k] = value THEN k ELSE Find(self, value, k + 1)
    ELSE -1

DynamicArray_remove(self, value) ==
    LET k == Find(self, value, 0)
    IN  IF k = -1 THEN Raise(self, "ValueError")
        ELSE LET A1 == ShiftLeft(self.A, k, self.n)
             IN  Result([self EXCEPT !.A = [A1 EXCEPT ![self.n - 1] = None],
                                     !.n = self.n - 1],
                        None, NoError)

\* ================================================= AbstractCollection
\* Collections that live in one heap, as the objects of one program do.  A
\* collection is its class and its fields; the fields of the other class
\* stay null.
Coll(kind, front, rear, items, size) ==
    [kind |-> kind, front |-> front, rear |-> rear, items |-> items, size |-> size]

NoColl == Coll("none", Null, Null, Null, 0)

IsQueue(c) == c.kind = "LinkedQueue"

\* The object as the methods of its class see it.
QView(heap, c) == [heap |-> heap, front |-> c.front, rear |-> c.rear, size |-> c.size]
SView(heap, c) == [heap |-> heap, items |-> c.items, size |-> c.size]
FromQ(v) == Coll("LinkedQueue", v.front, v.rear, Null, v.size)
FromS(v) == Coll("LinkedStack", Null, Null, v.items, v.size)

\* The outcome of a call on a collection in the heap: the heap with the
\* nodes the call built or wrote, the collection, the value and the error.
Outcome(heap, coll, ret, err) ==
    [heap |-> heap, coll |-> coll, ret |-> ret, err |-> err]
QOutcome(heap, res) == Outcome(res.obj.heap @@ heap, FromQ(res.obj), res.ret, res.err)
SOutcome(heap, res) == Outcome(res.obj.heap @@ heap, FromS(res.obj), res.ret, res.err)

\* type(self)(): LinkedQueue.__init__ / LinkedStack.__init__ before the copy
Coll_new(kind) ==
    IF kind = "LinkedQueue" THEN FromQ(LinkedQueue_init) ELSE FromS(LinkedStack_init)

\* __iter__ of the object's class
Coll_iter(heap, c) ==
    IF IsQueue(c) THEN LinkedQueue_iter(QView(heap, c))
    ELSE LinkedStack_iter(SView(heap, c))

\* add of the object's class: LinkedQueue.add, or AbstractStack.add -> push.
\* LinkedQueue.add writes the next field of the node that was _rear, also
\* when that node is no longer part of the queue's own chain.
Coll_add(heap, c, item) ==
    IF IsQueue(c)
    THEN LET out == QOutcome(heap, LinkedQueue_add(QView(heap, c), item))
         IN  IF out.err = NoError /\ c.size # 0
             THEN [out EXCEPT !.heap[c.rear].next = out.coll.rear]
             ELSE out
    ELSE SOutcome(heap, LinkedStack_push(SView(heap, c), item))

Coll_pop(heap, c) ==
    IF IsQueue(c) THEN QOutcome(heap, LinkedQueue_pop(QView(heap, c)))
    ELSE SOutcome(heap, LinkedStack_pop(SView(heap, c)))

Coll_clear(heap, c) ==
    IF IsQueue(c) THEN QOutcome(heap, LinkedQueue_clear(QView(heap, c)))
    ELSE SOutcome(heap, LinkedStack_clear(SView(heap, c)))

\* LinkedQueue.remove; LinkedStack has no remove
Coll_remove(heap, c, index) ==
    IF IsQueue(c) THEN QOutcome(heap, LinkedQueue_remove(QView(heap, c), index))
    ELSE Outcome(heap, c, None, "AttributeError:remove")

RECURSIVE AddEach(_, _, _, _)
\* for item in items: self.add(item), from the i-th item on
AddEach(heap, c, items, i) ==
    IF i > Len(items) THEN Outcome(heap, c, None, NoError)
    ELSE LET out == Coll_add(heap, c, items[i])
         IN  IF out.err # NoError THEN out
             ELSE AddEach(out.heap, out.coll, items, i + 1)

\* A constructor that takes over the chain of a source of its own class
\* instead of adding the items one by one.
AbstractCollection_init_shareChain(heap, kind, source) ==
    IF source.kind = kind THEN Outcome(heap, source, None, NoError)
    ELSE IF source.size # 0
    THEN AddEach(heap, Coll_new(kind), Coll_iter(heap, source), 1)
    ELSE Outcome(heap, Coll_new(kind), None, NoError)

\* AbstractCollection.__init__(sourceCollection): _size = 0, then add every
\* item of the source if the source is true, i.e. if len(source) != 0
AbstractCollection_init(heap, kind, source) ==
    IF source.size # 0
    THEN AddEach(heap, Coll_new(kind), Coll_iter(heap, source), 1)
    ELSE Outcome(heap, Coll_new(kind), None, NoError)

\* AbstractCollection.__add__
AbstractCollection_add(heap, self, other) ==
    LET result == AbstractCollection_init(heap, self.kind, self)
    IN  IF result.err # NoError THEN result
        ELSE AddEach(result.heap, result.coll, Coll_iter(result.heap, other), 1)

RECURSIVE EqLoop(_, _, _)
\* for item in self: if item != next(otherIter): return False, from the
\* i-th item of self on; next on the exhausted iterator raises StopIteration
EqLoop(mine, others, i) ==
    IF i > Len(mine) THEN Result(None, "True", NoError)
    ELSE IF i > Len(others) THEN Raise(None, "StopIteration")
    ELSE IF mine[i] # others[i] THEN Result(None, "False", NoError)
    ELSE EqLoop(mine, others, i + 1)

\* AbstractCollection.__eq__; same: self is other
AbstractCollection_eq(heap, self, other, same) ==
    IF same THEN Result(None, "True", NoError)
    ELSE IF self.kind # other.kind \/ self.size # other.size
    THEN Result(None, "False", NoError)
    ELSE EqLoop(Coll_iter(heap, self), Coll_iter(heap, other), 1)

\* ------------------------------------------------------------- state
VARIABLES
    queue,      \* a LinkedQueue: heap, front, rear, size
    qlast,      \* the last call on queue: op, item, index, ret, err, pre
    added,      \* add-then-drain scenario: the items added, in order
    popped,     \* add-then-drain scenario: the items pop returned, in order
    phase,      \* add-then-drain scenario: "adds", "pops" or "removed"
    lstack,     \* a LinkedStack: heap, items, size
    llast,      \* the last call on lstack
    llog,       \* the items pushed on lstack and not yet popped, oldest first
    stack,      \* a Stack: heap, top, size
    slast,      \* the last call on stack
    slog,       \* the items pushed on stack and not yet popped, oldest first
    darr,       \* a DynamicArray: n, capacity, A
    dlast,      \* the last call on darr
    misuse,     \* insert has been called with k outside 0..n
    lseen,      \* the items the last iteration of lstack yielded, in order
    pheap,      \* the heap that holds the nodes of the collections a, b and r
    pa,         \* collection a
    pb,         \* collection b
    pr,         \* collection r, the result of a concatenation
    plast,      \* the last call on a, b or r: op, target, left, right, ret, err
    pphase      \* "start", "build_a", "build_b", "joined" or "done"

qvars == <<queue, qlast, added, popped, phase>>
svars == <<lstack, llast, llog, stack, slast, slog>>
dvars == <<darr, dlast>>
xvars == <<misuse>>
ivars == <<lseen>>
pvars == <<pheap, pa, pb, pr, plast, pphase>>
vars == <<queue, qlast, added, popped, phase,
          lstack, llast, llog, stack, slast, slog, darr, dlast, misuse, lseen,
          pheap, pa, pb, pr, plast, pphase>>

Call(op, item, index, res, pre) ==
    [op |-> op, item |-> item, index |-> index,
     ret |-> res.ret, err |-> res.err, pre |-> pre]

NoCall(pre) == [op |-> "init", item |-> None, index |-> 0,
                ret |-> None, err |-> NoError, pre |-> pre]

PCall(op, target, left, right, ret, err) ==
    [op |-> op, target |-> target, left |-> left, right |-> right,
     ret |-> ret, err |-> err]

\* Every object as its constructor leaves it.
Init ==
    /\ queue = LinkedQueue_init
    /\ qlast = NoCall(LinkedQueue_init)
    /\ added = <<>>
    /\ popped = <<>>
    /\ phase = "adds"
    /\ lstack = LinkedStack_init
    /\ llast = NoCall(<<>>)
    /\ llog = <<>>
    /\ stack = Stack_init
    /\ slast = NoCall(<<>>)
    /\ slog = <<>>
    /\ darr = DynamicArray_init
    /\ dlast = NoCall(DynamicArray_init)
    /\ misuse = FALSE
    /\ lseen = <<>>
    /\ pheap = <<>>
    /\ pa = NoColl
    /\ pb = NoColl
    /\ pr = NoColl
    /\ plast = PCall("init", "none", "none", "none", None, NoError)
    /\ pphase = "start"

\* ---------------------------------------- any sequence of calls on a queue
QAdd ==
    \E item \in Items :
        /\ queue.size < MaxSize
        /\ LET res == LinkedQueue_add(queue, item)
           IN  /\ queue' = res.obj
               /\ qlast' = Call("add", item, 0, res, queue)
        /\ UNCHANGED <<added, popped, phase, svars, dvars, xvars, ivars, pvars>>

QPop ==
    /\ LET res == LinkedQueue_pop(queue)
       IN  /\ queue' = res.obj
           /\ qlast' = Call("pop", None, 0, res, queue)
    /\ UNCHANGED <<added, popped, phase, svars, dvars, xvars, ivars, pvars>>

QPeek ==
    /\ LET res == LinkedQueue_peek(queue)
       IN  /\ queue' = res.obj
           /\ qlast' = Call("peek", None, 0, res, queue)
    /\ UNCHANGED <<added, popped, phase, svars, dvars, xvars, ivars, pvars>>

QRemove ==
    \E index \in -1..MaxSize :
        /\ LET res == LinkedQueue_remove(queue, index)
           IN  /\ queue' = res.obj
               /\ qlast' = Call("remove", None, index, res, queue)
        /\ UNCHANGED <<added, popped, phase, svars, dvars, xvars, ivars, pvars>>

QClear ==
    /\ LET res == LinkedQueue_clear(queue)
       IN  /\ queue' = res.obj
           /\ qlast' = Call("clear", None, 0, res, queue)
    /\ UNCHANGED <<added, popped, phase, svars, dvars, xvars, ivars, pvars>>

QueueNext == QAdd \/ QPop \/ QPeek \/ QRemove \/ QClear

SpecQueue == Init /\ [][QueueNext]_vars

\* ------------------- adds on a new queue, then pops only or one remove
ScAdd ==
    \E item \in AddItems :
        /\ phase = "adds"
        /\ Len(added) < MaxAdds
        /\ LET res == LinkedQueue_add(queue, item)
           IN  /\ queue' = res.obj
               /\ qlast' = Call("add", item, 0, res, queue)
        /\ added' = Append(added, item)
        /\ UNCHANGED <<popped, phase, svars, dvars, xvars, ivars, pvars>>

ScPop ==
    /\ phase \in {"adds", "pops"}
    /\ Len(popped) < Len(added)
    /\ LET res == LinkedQueue_pop(queue)
       IN  /\ queue' = res.obj
           /\ qlast' = Call("pop", None, 0, res, queue)
           /\ popped' = IF res.err = NoError THEN Append(popped, res.ret)
                        ELSE Append(popped, res.err)
    /\ phase' = "pops"
    /\ UNCHANGED <<added, svars, dvars, xvars, ivars, pvars>>

ScRemove ==
    \E index \in -1..MaxAdds :
        /\ phase = "adds"
        /\ LET res == LinkedQueue_remove(queue, index)
           IN  /\ queue' = res.obj
               /\ qlast' = Call("remove", None, index, res, queue)
        /\ phase' = "removed"
        /\ UNCHANGED <<added, popped, svars, dvars, xvars, ivars, pvars>>

ScenarioNext == ScAdd \/ ScPop \/ ScRemove

SpecScenario == Init /\ [][ScenarioNext]_vars

\* -------------------------- any sequence of calls on the two stacks
\* The log after a call: push appends, a pop that returns drops the newest.
Pushed(log, item) == Append(log, item)
Popped(log, res) ==
    IF res.err = NoError THEN SubSeq(log, 1, Len(log) - 1) ELSE log

LSPush ==
    \E item \in Items :
        /\ lstack.size < MaxDepth
        /\ LET res == LinkedStack_push(lstack, item)
           IN  /\ lstack' = res.obj
               /\ llast' = Call("push", item, 0, res, llog)
        /\ llog' = Pushed(llog, item)
        /\ UNCHANGED <<stack, slast, slog, qvars, dvars, xvars, ivars, pvars>>

LSPop ==
    /\ LET res == LinkedStack_pop(lstack)
       IN  /\ lstack' = res.obj
           /\ llast' = Call("pop", None, 0, res, llog)
           /\ llog' = Popped(llog, res)
    /\ UNCHANGED <<stack, slast, slog, qvars, dvars, xvars, ivars, pvars>>

LSPeek ==
    /\ LET res == LinkedStack_peek(lstack)
       IN  /\ lstack' = res.obj
           /\ llast' = Call("peek", None, 0, res, llog)
    /\ UNCHANGED <<llog, stack, slast, slog, qvars, dvars, xvars, ivars, pvars>>

LSClear ==
    /\ LET res == LinkedStack_clear(lstack)
       IN  /\ lstack' = res.obj
           /\ llast' = Call("clear", None, 0, res, llog)
    /\ llog' = <<>>
    /\ UNCHANGED <<stack, slast, slog, qvars, dvars, xvars, ivars, pvars>>

SPush ==
    \E item \in Items :
        /\ stack.size < MaxDepth
        /\ LET res == Stack_push(stack, item)
           IN  /\ stack' = res.obj
               /\ slast' = Call("push", item, 0, res, slog)
        /\ slog' = Pushed(slog, item)
        /\ UNCHANGED <<lstack, llast, llog, qvars, dvars, xvars, ivars, pvars>>

SPop ==
    /\ LET res == Stack_pop(stack)
       IN  /\ stack' = res.obj
           /\ slast' = Call("pop", None, 0, res, slog)
           /\ slog' = Popped(slog, res)
    /\ UNCHANGED <<lstack, llast, llog, qvars, dvars, xvars, ivars, pvars>>

SPeek ==
    /\ LET res == Stack_peek(stack)
       IN  /\ stack' = res.obj
           /\ slast' = Call("peek", None, 0, res, slog)
    /\ UNCHANGED <<slog, lstack, llast, llog, qvars, dvars, xvars, ivars, pvars>>

LSIter ==
    /\ LET res == LinkedStack_list(lstack)
       IN  /\ lstack' = res.obj
           /\ llast' = Call("iter", None, 0, res, llog)
           /\ lseen' = res.list
    /\ UNCHANGED <<llog, stack, slast, slog, qvars, dvars, xvars, pvars>>

StacksNext ==
    LSPush \/ LSPop \/ LSPeek \/ LSClear \/ LSIter \/ SPush \/ SPop \/ SPeek

SpecStacks == Init /\ [][StacksNext]_vars

\* ----------------------------- any sequence of calls on a DynamicArray
DAppend ==
    \E obj \in Items :
        /\ darr.n < MaxN
        /\ LET res == DynamicArray_append(darr, obj)
           IN  /\ darr' = res.obj
               /\ dlast' = Call("append", obj, 0, res, darr)
        /\ UNCHANGED <<qvars, svars, xvars, ivars, pvars>>

DInsert ==
    \E value \in Items : \E k \in 0..darr.n :
        /\ darr.n < MaxN
        /\ LET res == DynamicArray_insert(darr, k, value)
           IN  /\ darr' = res.obj
               /\ dlast' = Call("insert", value, k, res, darr)
        /\ UNCHANGED <<qvars, svars, xvars, ivars, pvars>>

DRemove ==
    \E value \in Items :
        /\ LET res == DynamicArray_remove(darr, value)
           IN  /\ darr' = res.obj
               /\ dlast' = Call("remove", value, 0, res, darr)
        /\ UNCHANGED <<qvars, svars, xvars, ivars, pvars>>

DGetitem ==
    \E k \in -1..MaxN :
        /\ LET res == DynamicArray_getitem(darr, k)
           IN  /\ darr' = res.obj
               /\ dlast' = Call("getitem", None, k, res, darr)
        /\ UNCHANGED <<qvars, svars, xvars, ivars, pvars>>

DynNext == DAppend \/ DInsert \/ DRemove \/ DGetitem

SpecDyn == Init /\ [][DynNext]_vars

\* ------------------- one structure, any sequence of calls, any argument
\* insert with any k; what follows a call that broke the assumption
\* 0 <= k <= n is not followed further.
DInsertAny ==
    \E value \in Items : \E k \in (-2)..(MaxN + 1) :
        /\ ~misuse
        /\ darr.n < MaxN
        /\ LET res == DynamicArray_insert(darr, k, value)
           IN  /\ darr' = res.obj
               /\ dlast' = Call("insert", value, k, res, darr)
        /\ misuse' = ~(0 <= k /\ k <= darr.n)
        /\ UNCHANGED <<qvars, svars, ivars, pvars>>

QueueUnused == qlast.op = "init"
StacksUnused == llast.op = "init" /\ slast.op = "init"
DynUnused == dlast.op = "init"

OneNext ==
    \/ StacksUnused /\ DynUnused /\ QueueNext
    \/ QueueUnused /\ DynUnused /\ StacksNext
    \/ QueueUnused /\ StacksUnused /\ ~misuse
          /\ (DAppend \/ DInsertAny \/ DRemove \/ DGetitem)

SpecOne == Init /\ [][OneNext]_vars

\* ------ two collections built one after the other, compared, concatenated,
\* ------ and one more call on either of them or on the result
Kinds == {"LinkedQueue", "LinkedStack"}

Get(t) == IF t = "a" THEN pa ELSE IF t = "b" THEN pb ELSE pr

Roots(c) == {c.front, c.rear, c.items}

\* a call on t is followed while a is built, then while b is built, and
\* once after the concatenation
Callable(t) ==
    \/ pphase = "build_a" /\ t \in {"a", "b"}
    \/ pphase = "build_b" /\ t = "b"
    \/ pphase = "joined"

After(t) ==
    IF pphase = "joined" THEN "done" ELSE IF t = "b" THEN "build_b" ELSE pphase

Room(t) == IF t = "r" THEN 2 * MaxPair + 1 ELSE MaxPair

\* The collection t becomes what the call made of it; nodes that nothing
\* refers to any more are freed.
PSet(t, out) ==
    LET a2 == IF t = "a" THEN out.coll ELSE pa
        b2 == IF t = "b" THEN out.coll ELSE pb
        r2 == IF t = "r" THEN out.coll ELSE pr
    IN  /\ pa' = a2
        /\ pb' = b2
        /\ pr' = r2
        /\ pheap' = Collect(out.heap, Roots(a2) \cup Roots(b2) \cup Roots(r2))

PNew ==
    \E ka \in Kinds : \E kb \in Kinds :
        /\ pphase = "start"
        /\ pa' = Coll_new(ka)
        /\ pb' = Coll_new(kb)
        /\ pphase' = "build_a"
        /\ plast' = PCall("new", "none", "none", "none", None, NoError)
        /\ UNCHANGED <<pheap, pr, qvars, svars, dvars, xvars, ivars>>

PAdd ==
    \E t \in {"a", "b", "r"} : \E item \in Items :
        /\ Callable(t)
        /\ Get(t).size < Room(t)
        /\ LET out == Coll_add(pheap, Get(t), item)
           IN  /\ PSet(t, out)
               /\ plast' = PCall("add", t, "none", "none", out.ret, out.err)
        /\ pphase' = After(t)
        /\ UNCHANGED <<qvars, svars, dvars, xvars, ivars>>

PPop ==
    \E t \in {"a", "b", "r"} :
        /\ Callable(t)
        /\ LET out == Coll_pop(pheap, Get(t))
           IN  /\ PSet(t, out)
               /\ plast' = PCall("pop", t, "none", "none", out.ret, out.err)
        /\ pphase' = After(t)
        /\ UNCHANGED <<qvars, svars, dvars, xvars, ivars>>

PRemove ==
    \E t \in {"a", "b", "r"} : \E index \in -1..Room(t) :
        /\ Callable(t)
        /\ LET out == Coll_remove(pheap, Get(t), index)
           IN  /\ PSet(t, out)
               /\ plast' = PCall("remove", t, "none", "none", out.ret, out.err)
        /\ pphase' = After(t)
        /\ UNCHANGED <<qvars, svars, dvars, xvars, ivars>>

PClear ==
    \E t \in {"a", "b", "r"} :
        /\ Callable(t)
        /\ LET out == Coll_clear(pheap, Get(t))
           IN  /\ PSet(t, out)
               /\ plast' = PCall("clear", t, "none", "none", out.ret, out.err)
        /\ pphase' = After(t)
        /\ UNCHANGED <<qvars, svars, dvars, xvars, ivars>>

\* x == y
PEq ==
    \E x \in {"a", "b"} : \E y \in {"a", "b"} :
        /\ pphase \in {"build_a", "build_b"}
        /\ LET res == AbstractCollection_eq(pheap, Get(x), Get(y), x = y)
           IN  plast' = PCall("eq", "none", x, y, res.ret, res.err)
        /\ UNCHANGED <<pheap, pa, pb, pr, pphase, qvars, svars, dvars, xvars, ivars>>

\* r = x + y
PConcat ==
    \E x \in {"a", "b"} : \E y \in {"a", "b"} :
        /\ pphase \in {"build_a", "build_b"}
        /\ LET out == AbstractCollection_add(pheap, Get(x), Get(y))
           IN  /\ PSet("r", out)
               /\ plast' = PCall("concat", "r", x, y, out.ret, out.err)
        /\ pphase' = "joined"
        /\ UNCHANGED <<qvars, svars, dvars, xvars, ivars>>

PairNext == PNew \/ PAdd \/ PPop \/ PRemove \/ PClear \/ PEq \/ PConcat

SpecPair == Init /\ [][PairNext]_vars

\* =========================================================== properties
DeleteAt(seq, i) == SubSeq(seq, 1, i - 1) \o SubSeq(seq, i + 1, Len(seq))

\* C1: LinkedQueue is FIFO.  After add(e1) .. add(en) on a new queue and
\* nothing else, the pops return e1, e2, .. in that order (what has been
\* popped so far is a prefix of what was added), and after the n-th pop the
\* queue is empty.
C1_Fifo ==
    phase = "pops" =>
        /\ Len(popped) <= Len(added)
        /\ popped = SubSeq(added, 1, Len(popped))
        /\ LinkedQueue_iter(queue) = SubSeq(added, Len(popped) + 1, Len(added))
        /\ Len(popped) = Len(added) =>
               /\ queue.size = 0
               /\ queue.front = Null
               /\ queue.rear = Null

C1_Witness ==
    /\ phase = "pops"
    /\ Len(added) >= 3
    /\ Len(popped) = Len(added)
    /\ added[1] # added[2]
    /\ added[2] # added[3]

\* C2: after every remove that returns and leaves the queue non-empty, rear
\* is the last node of the chain from front; rear is null when the chain is
\* empty.
C2_RearIsLast ==
    (qlast.op = "remove" /\ qlast.err = NoError) =>
        IF queue.front = Null
        THEN queue.rear = Null
        ELSE LET chain == Chain(queue.heap, queue.front)
             IN  queue.rear = chain[Len(chain)]

\* C3: on a queue built by adds only, remove(index) with 0 <= index < size
\* returns the item at position index, iteration afterwards yields the
\* previous items without that position, and size is one less.
C3_RemoveAt ==
    (phase = "removed" /\ 0 <= qlast.index /\ qlast.index < Len(added)) =>
        /\ LinkedQueue_iter(qlast.pre) = added
        /\ qlast.pre.size = Len(added)
        /\ qlast.err = NoError
        /\ qlast.ret = added[qlast.index + 1]
        /\ LinkedQueue_iter(queue) = DeleteAt(added, qlast.index + 1)
        /\ queue.size = Len(added) - 1

C3_Witness ==
    /\ phase = "removed"
    /\ qlast.op = "remove"
    /\ qlast.index = 1
    /\ added = <<"a", "b", "c">>
    /\ qlast.ret = "b"
    /\ LinkedQueue_iter(queue) = <<"a", "c">>

\* C4: front is null iff rear is null, exactly when size is 0, and a
\* non-null rear has a null next.
C4_Structural ==
    /\ (queue.front = Null) <=> (queue.rear = Null)
    /\ (queue.front = Null) <=> (queue.size = 0)
    /\ queue.rear # Null => queue.heap[queue.rear].next = Null

\* C5: whenever size > 0, remove(0) and pop() return the same item (or fail
\* alike) and leave the same front, rear, size and chain.
C5_RemoveZeroIsPop ==
    queue.size > 0 => LinkedQueue_remove(queue, 0) = LinkedQueue_pop(queue)

Reverse(seq) == [i \in 1..Len(seq) |-> seq[Len(seq) + 1 - i]]

\* What a call on a stack with the given log of unpopped pushes must do when
\* it is a pop: fail on an empty log, else return the newest entry.
PopsNewest(last) ==
    last.op = "pop" =>
        IF last.pre = <<>> THEN last.err # NoError
        ELSE last.err = NoError /\ last.ret = last.pre[Len(last.pre)]

\* C6: stacks are LIFO.  Every pop of LinkedStack and of Stack returns the
\* most recently pushed item not yet popped; the chain from the top holds
\* the unpopped pushes newest first, so n pops after pushes p1..pn return
\* pn .. p1, and the stack is empty once all of them are popped.
C6_Lifo ==
    /\ PopsNewest(llast)
    /\ PopsNewest(slast)
    /\ IterFrom(lstack.heap, lstack.items) = Reverse(llog)
    /\ [i \in 1..Len(Chain(stack.heap, stack.top)) |->
            stack.heap[Chain(stack.heap, stack.top)[i]].item] = Reverse(slog)
    /\ llog = <<>> => (lstack.items = Null /\ lstack.size = 0)
    /\ slog = <<>> => (stack.top = Null /\ stack.size = 0)

C6_Witness ==
    /\ llast.op = "pop" /\ llast.pre = <<"a", "b">> /\ llast.ret = "b"
    /\ slast.op = "pop" /\ slast.pre = <<"b", "a">> /\ slast.ret = "a"

IsPowerOfTwo(c) == \E e \in 0..c : c = 2 ^ e

\* C7: the count never exceeds the capacity, the backing array has capacity
\* slots, and every call leaves the capacity as it was or exactly doubles
\* it, starting from 1; so it never decreases.
C7_Capacity ==
    /\ darr.n <= darr.capacity
    /\ DOMAIN darr.A = 0..(darr.capacity - 1)
    /\ darr.capacity \in {dlast.pre.capacity, 2 * dlast.pre.capacity}
    /\ darr.capacity >= dlast.pre.capacity
    /\ IsPowerOfTwo(darr.capacity)

C7_Witness ==
    /\ dlast.op = "insert"
    /\ dlast.pre.capacity = 2
    /\ darr.capacity = 4
    /\ darr.n = 3

At(self, k) == DynamicArray_getitem(self, k)

\* C8: append(v) on an array of length n makes the length n + 1, at(n)
\* returns v and at(i) returns what it returned before for every i < n.
C8_Append ==
    dlast.op = "append" =>
        /\ dlast.err = NoError
        /\ DynamicArray_len(darr) = DynamicArray_len(dlast.pre) + 1
        /\ At(darr, dlast.pre.n).err = NoError
        /\ At(darr, dlast.pre.n).ret = dlast.item
        /\ \A i \in 0..(dlast.pre.n - 1) :
               /\ At(darr, i).err = NoError
               /\ At(darr, i).ret = At(dlast.pre, i).ret

C8_Witness ==
    /\ dlast.op = "append"
    /\ dlast.pre.n = 2
    /\ dlast.pre.capacity = 2
    /\ darr.capacity = 4
    /\ At(darr, 0).ret # At(darr, 1).ret

\* C9: insert(k, v) with 0 <= k <= n makes the length n + 1, at(k) returns
\* v, every item that was at an index i >= k is at i + 1, and every item
\* at an index i < k stays.
C9_Insert ==
    dlast.op = "insert" =>
        /\ dlast.err = NoError
        /\ DynamicArray_len(darr) = DynamicArray_len(dlast.pre) + 1
        /\ At(darr, dlast.index).err = NoError
        /\ At(darr, dlast.index).ret = dlast.item
        /\ \A i \in 0..(dlast.pre.n - 1) :
               LET to == IF i >= dlast.index THEN i + 1 ELSE i
               IN  /\ At(darr, to).err = NoError
                   /\ At(darr, to).ret = At(dlast.pre, i).ret

C9_Witness ==
    /\ dlast.op = "insert"
    /\ dlast.pre.n = 2
    /\ dlast.pre.capacity = 2
    /\ dlast.index = 0
    /\ At(dlast.pre, 0).ret # At(dlast.pre, 1).ret
    /\ darr.capacity = 4

\* The indices below n that hold value.
Occurrences(self, value) == {i \in 0..(self.n - 1) : self.A[i] = value}
Lowest(S) == CHOOSE i \in S : \A j \in S : i <= j

\* C10: remove(value) removes the lowest-index occurrence only: items below
\* it keep their index, items above it move down by one, the length drops
\* by 1; with no occurrence it fails with ValueError and changes nothing.
C10_Remove ==
    dlast.op = "remove" =>
        LET pre == dlast.pre
            occ == Occurrences(pre, dlast.item)
        IN  IF occ = {}
            THEN dlast.err = "ValueError" /\ darr = pre
            ELSE /\ dlast.err = NoError
                 /\ DynamicArray_len(darr) = DynamicArray_len(pre) - 1
                 /\ darr.capacity = pre.capacity
                 /\ \A i \in 0..(darr.n - 1) :
                        LET from == IF i >= Lowest(occ) THEN i + 1 ELSE i
                        IN  /\ At(darr, i).err = NoError
                            /\ At(darr, i).ret = At(pre, from).ret

C10_Witness ==
    /\ dlast.op = "remove"
    /\ dlast.err = NoError
    /\ dlast.pre.n = 4
    /\ Occurrences(dlast.pre, dlast.item) = {1, 3}

\* C11: pop and peek on a LinkedStack or LinkedQueue that holds no items
\* (new, cleared or drained) fail with KeyError.
C11_EmptyFails ==
    /\ (qlast.op \in {"pop", "peek"} /\ LinkedQueue_iter(qlast.pre) = <<>>) =>
           qlast.err = "KeyError"
    /\ (llast.op \in {"pop", "peek"} /\ llast.pre = <<>>) =>
           llast.err = "KeyError"

\* A step that changes an object is a call on it, described by the object's
\* last-call record after the step.
QueueFailed == queue' # queue /\ qlast'.err # NoError
LinkedStackFailed == lstack' # lstack /\ llast'.err # NoError
DynFailed == darr' # darr /\ dlast'.err # NoError

\* C12 as stated: no call of DynamicArray (at, insert with any k, remove),
\* LinkedStack (pop, peek) or LinkedQueue (pop, peek, remove with any index)
\* that fails changes the object.
C12_NoPartialMutation ==
    [][~QueueFailed /\ ~LinkedStackFailed /\ ~DynFailed]_vars

\* C12 amended: as long as insert is called with 0 <= k <= n only, no call
\* that fails changes the object (insert itself then never fails).
C12_NoPartialMutationInRange ==
    [][~QueueFailed /\ ~LinkedStackFailed /\ (DynFailed => misuse')]_vars

C12_Witness ==
    /\ qlast.op = "remove"
    /\ qlast.err # NoError
    /\ qlast.index = 1
    /\ qlast.pre.size = 2
    /\ queue = qlast.pre

\* C15: peek leaves the object as it was; on a LinkedStack or LinkedQueue
\* that holds items it returns what the next pop would return, and on a
\* LinkedStack right after push(x) it returns x.
C15_PeekStep ==
    /\ (qlast' # qlast /\ qlast'.op = "peek") =>
           /\ queue' = queue
           /\ qlast'.err = LinkedQueue_pop(queue).err
           /\ qlast'.ret = LinkedQueue_pop(queue).ret
           /\ queue.front # Null => qlast'.err = NoError
    /\ (llast' # llast /\ llast'.op = "peek") =>
           /\ lstack' = lstack
           /\ llast'.err = LinkedStack_pop(lstack).err
           /\ llast'.ret = LinkedStack_pop(lstack).ret
           /\ lstack.items # Null => llast'.err = NoError
           /\ llast.op = "push" =>
                  (llast'.err = NoError /\ llast'.ret = llast.item)

C15_Peek == [][C15_PeekStep]_vars

C15_Witness ==
    /\ llast.op = "peek"
    /\ llast.pre = <<"a", "b">>
    /\ llast.ret = "b"
    /\ lstack.size = 2

RECURSIVE PopAll(_)
\* What successive pops return until one fails.
PopAll(self) ==
    LET res == LinkedStack_pop(self)
    IN  IF res.err # NoError THEN <<>> ELSE <<res.ret>> \o PopAll(res.obj)

\* C16: iterating a LinkedStack yields the items on it oldest-pushed first,
\* the reverse of what successive pops would return, and leaves the stack
\* as it was.
C16_IterStep ==
    (llast' # llast /\ llast'.op = "iter") =>
        /\ llast'.err = NoError
        /\ lseen' = llog
        /\ lseen' = Reverse(PopAll(lstack))
        /\ lstack' = lstack

C16_Iter == [][C16_IterStep]_vars

C16_Witness ==
    /\ llast.op = "iter"
    /\ lseen = <<"a", "b", "b">>
    /\ lstack.size = 3

\* C17: the size counter of a LinkedStack and of a Stack is the number of
\* nodes reachable from the top, so it is 0 exactly when the top is null.
C17_SizeIsChainLength ==
    /\ lstack.size = Len(Chain(lstack.heap, lstack.items))
    /\ (lstack.size = 0) <=> (lstack.items = Null)
    /\ stack.size = Len(Chain(stack.heap, stack.top))
    /\ (stack.size = 0) <=> (stack.top = Null)

C17_Witness ==
    /\ llast.op = "pop" /\ llast.err = NoError /\ lstack.size = 2
    /\ slast.op = "pop" /\ slast.err # NoError /\ stack.size = 0

\* C18: len(queue) is the number of nodes reachable from front, the number
\* of items iteration yields.
C18_SizeIsChainLength ==
    /\ queue.size = Len(Chain(queue.heap, queue.front))
    /\ queue.size = Len(LinkedQueue_iter(queue))

RECURSIVE PopTimes(_, _)
\* What k successive pops return (the exception's name where one fails).
PopTimes(self, k) ==
    IF k = 0 THEN <<>>
    ELSE LET res == LinkedQueue_pop(self)
         IN  <<IF res.err = NoError THEN res.ret ELSE res.err>>
                 \o PopTimes(res.obj, k - 1)

\* C19: add(x) makes x the last item of the iteration order, behind the
\* items that were there, and x is what pop returns after as many pops as
\* there were items before it.
C19_AddIsKept ==
    qlast.op = "add" =>
        LET before == LinkedQueue_iter(qlast.pre)
        IN  /\ qlast.err = NoError
            /\ LinkedQueue_iter(queue) = Append(before, qlast.item)
            /\ PopTimes(queue, Len(before) + 1)[Len(before) + 1] = qlast.item

\* C13: a == b returns a boolean, and returns true exactly when a and b are
\* of the same class, have the same size and yield pairwise equal items.
C13_Equality ==
    plast.op = "eq" =>
        LET x == Get(plast.left)
            y == Get(plast.right)
        IN  /\ plast.err = NoError
            /\ plast.ret \in {"True", "False"}
            /\ (plast.ret = "True") <=>
                   /\ x.kind = y.kind
                   /\ x.size = y.size
                   /\ Coll_iter(pheap, x) = Coll_iter(pheap, y)

\* C14: a + b is a new collection of the class of a that yields the items
\* of a in a's order, then the items of b in b's order, and whose size is
\* len(a) + len(b).
C14_Concat ==
    plast.op = "concat" =>
        LET x == Get(plast.left)
            y == Get(plast.right)
        IN  /\ plast.err = NoError
            /\ pr.kind = x.kind
            /\ Coll_iter(pheap, pr) = Coll_iter(pheap, x) \o Coll_iter(pheap, y)
            /\ pr.size = x.size + y.size

\* The nodes a collection refers to, and the collection with their contents.
Nodes(heap, c) == UNION {Range(Chain(heap, r)) : r \in Roots(c)}
Whole(heap, c) == [coll |-> c, nodes |-> Collect(heap, Roots(c))]
Kept(t) == Whole(pheap', Get(t)') = Whole(pheap, Get(t))

\* C20: computing a + b leaves a and b as they were and the result shares
\* no node with them; an add, pop, remove or clear on one of a, b and the
\* result leaves the other two as they were.
C20_NoAliasStep ==
    /\ plast'.op = "concat" =>
           /\ Kept("a")
           /\ Kept("b")
           /\ Nodes(pheap', pr') \cap (Nodes(pheap', pa') \cup Nodes(pheap', pb')) = {}
    /\ plast'.op \in {"add", "pop", "remove", "clear"} =>
           /\ \A t \in {"a", "b", "r"} \ {plast'.target} : Kept(t)
           /\ Nodes(pheap', pr') \cap (Nodes(pheap', pa') \cup Nodes(pheap', pb')) = {}

C20_NoAlias == [][C20_NoAliasStep]_vars

C20_Witness ==
    /\ pphase = "done"
    /\ plast.op = "add"
    /\ plast.target = "r"
    /\ pa.kind = "LinkedQueue"
    /\ pa.size = 2
    /\ pb.size = 1
    /\ Len(Coll_iter(pheap, pr)) = 4

====
